---- MODULE Spec2Model ----
(***************************************************************************)
(* EEG score check-list: the template-driven form (dynamic_form.py) and    *)
(* the report composer (document_generator.py).                            *)
(*                                                                         *)
(* Text is a sequence of one-character strings, so that prefix tests,      *)
(* slicing, str.replace and number parsing are computed character by       *)
(* character as Python computes them.  A Python dict is a sequence of      *)
(* [k, v] entries with distinct keys, in insertion order.                  *)
(***************************************************************************)
EXTENDS Integers, Sequences, FiniteSets, TLC

VARIABLES
    \* ---- document_generator.py: one call of the generator --------------
    data,        \* the FormData dict handed to the generator
    called,      \* which generator entry point has run ("none" before)
    result,      \* what that call returned or raised
    word_template, \* what lies at self.word_template_path when the generator is called
    \* ---- dynamic_form.py: the running DynamicFormGUI -------------------
    phase,       \* "new" before __init__, "ready" once it returned
    template,    \* self.template
    variables,   \* self.variables : field id -> tk variable
    widgets,     \* self.widgets   : field id -> widget
    output_text, \* self.output_text (the result view)
    dialog,      \* the last messagebox shown
    running,     \* FALSE once root.destroy() was called
    today        \* the day datetime.now() falls on

genVars  == <<data, called, result, word_template>>
formVars == <<phase, template, variables, widgets, output_text,
              dialog, running, today>>
vars     == <<data, called, result, word_template, phase, template, variables, widgets,
              output_text, dialog, running, today>>

(***************************************************************************)
(* Bounds of the model.                                                    *)
(***************************************************************************)
MaxKeys == 2

(***************************************************************************)
(* Python values.                                                          *)
(***************************************************************************)
Str(s)   == [t |-> "str", s |-> s]
IntV(n)  == [t |-> "int", n |-> n]
BoolV(b) == [t |-> "bool", b |-> b]
NoneV    == [t |-> "none"]
\* a float is sign * num / 10^scale, num without trailing decimal zeros
FloatV(neg, num, scale) == [t |-> "float", neg |-> neg, num |-> num, scale |-> scale]

(***************************************************************************)
(* Python dicts, in insertion order.                                       *)
(***************************************************************************)
DictKeys(d) == {d[i].k : i \in 1..Len(d)}

DictHas(d, key) == key \in DictKeys(d)

DictIndex(d, key) == CHOOSE i \in 1..Len(d) : d[i].k = key

DictGet(d, key) == d[DictIndex(d, key)].v

\* d[key] = value : overwrite in place, or append a new entry
DictSet(d, key, value) ==
    IF DictHas(d, key)
    THEN [d EXCEPT ![DictIndex(d, key)] = [k |-> key, v |-> value]]
    ELSE Append(d, [k |-> key, v |-> value])

(***************************************************************************)
(* _group_data_by_sections                                                 *)
(***************************************************************************)
SectionNames ==
    << "Patient Information", "Background Activity", "Epileptiform Activity",
       "Provocation Responses", "Conclusion", "Other" >>

field_mapping ==
    << [prefix  |-> <<"p","a","t","i","e","n","t","_">>,
        section |-> "Patient Information"],
       [prefix  |-> <<"s","t","u","d","y","_">>,
        section |-> "Patient Information"],
       [prefix  |-> <<"i","n","d","i","c","a","t","i","o","n">>,
        section |-> "Patient Information"],
       [prefix  |-> <<"s","y","m","m","e","t","r","y">>,
        section |-> "Background Activity"],
       [prefix  |-> <<"p","r","e","d","o","m","i","n","a","n","t","_">>,
        section |-> "Background Activity"],
       [prefix  |-> <<"r","e","a","c","t","i","v","i","t","y">>,
        section |-> "Background Activity"],
       [prefix  |-> <<"o","r","g","a","n","i","z","a","t","i","o","n">>,
        section |-> "Background Activity"],
       [prefix  |-> <<"c","o","n","t","i","n","u","i","t","y">>,
        section |-> "Background Activity"],
       [prefix  |-> <<"e","p","i","l","e","p","t","i","f","o","r","m","_">>,
        section |-> "Epileptiform Activity"],
       [prefix  |-> <<"h","v","_">>,
        section |-> "Provocation Responses"],
       [prefix  |-> <<"p","h","o","t","o","_">>,
        section |-> "Provocation Responses"],
       [prefix  |-> <<"i","m","p","r","e","s","s","i","o","n">>,
        section |-> "Conclusion"] >>

\* str.startswith
startswith(s, prefix) ==
    /\ Len(prefix) <= Len(s)
    /\ SubSeq(s, 1, Len(prefix)) = prefix

KeyEqualsOnly(key, prefix) == key = prefix

\* the test of line 169
KeyMatches(key, prefix) == startswith(key, prefix) \/ key = prefix

\* the inner loop of lines 168-172: the rules in table order, break at the first hit
RECURSIVE FindSection(_, _)
FindSection(key, i) ==
    IF i > Len(field_mapping) THEN "Other"
    ELSE IF KeyMatches(key, field_mapping[i].prefix) THEN field_mapping[i].section
    ELSE FindSection(key, i + 1)

EmptySections == [n \in {SectionNames[i] : i \in 1..Len(SectionNames)} |-> <<>>]

\* the outer loop of lines 166-175 over data.items()
RECURSIVE GroupLoop(_, _, _)
GroupLoop(d, i, sections) ==
    IF i > Len(d) THEN sections
    ELSE LET sec == FindSection(d[i].k, 1)
         IN  GroupLoop(d, i + 1,
                       [sections EXCEPT ![sec] = DictSet(@, d[i].k, d[i].v)])

KeepEmpty(sections, i) ==
    [j \in 1..Len(SectionNames) |-> [k |-> SectionNames[j], v |-> sections[SectionNames[j]]]]

\* line 178: the non-empty sections, in the order the sections dict declares them
RECURSIVE DropEmpty(_, _)
DropEmpty(sections, i) ==
    IF i > Len(SectionNames) THEN <<>>
    ELSE LET n == SectionNames[i]
         IN  (IF sections[n] # <<>> THEN << [k |-> n, v |-> sections[n]] >> ELSE <<>>)
             \o DropEmpty(sections, i + 1)

group_data_by_sections(d) == DropEmpty(GroupLoop(d, 1, EmptySections), 1)

(***************************************************************************)
(* str(value)                                                              *)
(***************************************************************************)
Digits == <<"0","1","2","3","4","5","6","7","8","9">>

RECURSIVE NatStr(_)
NatStr(n) == IF n < 10 THEN <<Digits[n + 1]>>
             ELSE NatStr(n \div 10) \o <<Digits[(n % 10) + 1]>>

IntStr(n) == IF n < 0 THEN <<"-">> \o NatStr(0 - n) ELSE NatStr(n)

RECURSIVE Pow10(_)
Pow10(k) == IF k = 0 THEN 1 ELSE 10 * Pow10(k - 1)

\* the fraction digits of num / 10^scale, left-padded with zeros to scale places
RECURSIVE FracStr(_, _)
FracStr(frac, places) ==
    IF places = 0 THEN <<>>
    ELSE FracStr(frac \div 10, places - 1) \o <<Digits[(frac % 10) + 1]>>

\* repr of a float with few decimals: 3.5 -> "3.5", -5.0 -> "-5.0"
FloatStr(f) ==
    (IF f.neg THEN <<"-">> ELSE <<>>)
    \o NatStr(f.num \div Pow10(f.scale))
    \o <<".">>
    \o (IF f.scale = 0 THEN <<"0">> ELSE FracStr(f.num % Pow10(f.scale), f.scale))

PyStr(v) ==
    CASE v.t = "str"   -> v.s
      [] v.t = "int"   -> IntStr(v.n)
      [] v.t = "float" -> FloatStr(v)
      [] v.t = "bool"  -> (IF v.b THEN <<"T","r","u","e">> ELSE <<"F","a","l","s","e">>)
      [] v.t = "none"  -> <<"N","o","n","e">>

(***************************************************************************)
(* _fill_word_template / _replace_placeholders_in_paragraph                *)
(*                                                                         *)
(* A paragraph is the sequence of its runs' texts; a document is           *)
(* [paragraphs, tables], a table a sequence of rows, a row a sequence of   *)
(* cells, a cell a sequence of paragraphs.                                 *)
(***************************************************************************)
RECURSIVE Concat(_)
Concat(ss) == IF ss = <<>> THEN <<>> ELSE Head(ss) \o Concat(Tail(ss))

\* paragraph.text
ParText(par) == Concat(par)

\* `old in s`
RECURSIVE Contains(_, _)
Contains(s, old) ==
    IF Len(s) < Len(old) THEN FALSE
    ELSE IF SubSeq(s, 1, Len(old)) = old THEN TRUE
    ELSE Contains(Tail(s), old)

\* s.replace(old, new), old not empty: left to right, occurrences not overlapping
RECURSIVE Replace(_, _, _)
Replace(s, old, new) ==
    IF Len(s) < Len(old) THEN s
    ELSE IF SubSeq(s, 1, Len(old)) = old
         THEN new \o Replace(SubSeq(s, Len(old) + 1, Len(s)), old, new)
         ELSE <<Head(s)>> \o Replace(Tail(s), old, new)

\* f"{{{{{key}}}}}"
Placeholder(key) == <<"{","{">> \o key \o <<"}","}">>

\* lines 90-93: one pass over data.items(), each replacement made in the text so far
RECURSIVE ReplaceLoop(_, _, _)
ReplaceLoop(full_text, d, i) ==
    IF i > Len(d) THEN full_text
    ELSE LET placeholder == Placeholder(d[i].k)
         IN  ReplaceLoop(IF Contains(full_text, placeholder)
                         THEN Replace(full_text, placeholder, PyStr(d[i].v))
                         ELSE full_text,
                         d, i + 1)

\* lines 85-98: the paragraph is cleared and given one run only if its text changed
replace_placeholders_in_paragraph(par, d) ==
    LET full_text == ReplaceLoop(ParText(par), d, 1)
    IN  IF full_text # ParText(par) THEN << full_text >> ELSE par

FillCell(cell, d) ==
    [i \in 1..Len(cell) |-> replace_placeholders_in_paragraph(cell[i], d)]

FillRow(row, d) == [i \in 1..Len(row) |-> FillCell(row[i], d)]

FillTable(table, d) == [i \in 1..Len(table) |-> FillRow(table[i], d)]

\* lines 68-83
fill_word_template(doc, d) ==
    [paragraphs |-> [i \in 1..Len(doc.paragraphs) |->
                        replace_placeholders_in_paragraph(doc.paragraphs[i], d)],
     tables     |-> [i \in 1..Len(doc.tables) |-> FillTable(doc.tables[i], d)]]

(***************************************************************************)
(* _format_field_name                                                      *)
(***************************************************************************)
LowerCase == <<"a","b","c","d","e","f","g","h","i","j","k","l","m",
               "n","o","p","q","r","s","t","u","v","w","x","y","z">>
UpperCase == <<"A","B","C","D","E","F","G","H","I","J","K","L","M",
               "N","O","P","Q","R","S","T","U","V","W","X","Y","Z">>

IsLower(c) == \E i \in 1..Len(LowerCase) : LowerCase[i] = c
IsUpper(c) == \E i \in 1..Len(UpperCase) : UpperCase[i] = c
IsCased(c) == IsLower(c) \/ IsUpper(c)

ToUpper(c) == IF IsLower(c)
              THEN UpperCase[CHOOSE i \in 1..Len(LowerCase) : LowerCase[i] = c]
              ELSE c
ToLower(c) == IF IsUpper(c)
              THEN LowerCase[CHOOSE i \in 1..Len(UpperCase) : UpperCase[i] = c]
              ELSE c

\* str.title(): a cased character is upper-cased after an uncased one (or at the
\* start) and lower-cased after a cased one
RECURSIVE TitleFrom(_, _)
TitleFrom(s, previous_is_cased) ==
    IF s = <<>> THEN <<>>
    ELSE <<IF previous_is_cased THEN ToLower(Head(s)) ELSE ToUpper(Head(s))>>
         \o TitleFrom(Tail(s), IsCased(Head(s)))

Title(s) == TitleFrom(s, FALSE)

replacements ==
    << [old |-> <<"H","v">>,
        new |-> <<"H","y","p","e","r","v","e","n","t","i","l","a","t","i","o","n">>],
       [old |-> <<"P","h","o","t","o">>,
        new |-> <<"P","h","o","t","o","s","t","i","m","u","l","a","t","i","o","n">>],
       [old |-> <<"E","e","g">>,
        new |-> <<"E","E","G">>] >>

RECURSIVE ApplyReplacements(_, _)
ApplyReplacements(formatted, i) ==
    IF i > Len(replacements) THEN formatted
    ELSE ApplyReplacements(Replace(formatted, replacements[i].old, replacements[i].new),
                           i + 1)

format_field_name(field_name) ==
    ApplyReplacements(Title(Replace(field_name, <<"_">>, <<" ">>)), 1)

(***************************************************************************)
(* _create_word_document_from_scratch                                      *)
(*                                                                         *)
(* A synthesized document is the sequence of the elements added to it.     *)
(***************************************************************************)
Heading(text, level) == [el |-> "heading", text |-> text, level |-> level]
Paragraph(text)      == [el |-> "paragraph", text |-> text]
TableOf(rows)        == [el |-> "table", rows |-> rows]

\* str(value) if value is not None else ''
CellStr(value) == IF value.t = "none" THEN <<>> ELSE PyStr(value)

HeaderRow == << "Field", "Value" >>

\* lines 130-133
WordRows(section_data) ==
    <<HeaderRow>> \o [i \in 1..Len(section_data) |->
                        << format_field_name(section_data[i].k),
                           CellStr(section_data[i].v) >>]

\* lines 115-135, for the sections from position i on
RECURSIVE WordSections(_, _)
WordSections(sections, i) ==
    IF i > Len(sections) THEN <<>>
    ELSE << Heading(sections[i].k, 1) >>
         \o (IF sections[i].v # <<>> THEN << TableOf(WordRows(sections[i].v)) >> ELSE <<>>)
         \o << Paragraph("") >>
         \o WordSections(sections, i + 1)

create_word_document_from_scratch(d) ==
    << Heading("EEG Score Checklist Report", 0),
       Paragraph("Generated on: <now>"),
       Paragraph("") >>
    \o WordSections(group_data_by_sections(d), 1)

(***************************************************************************)
(* generate_word_document                                                  *)
(*                                                                         *)
(* file is what lies at template_path; save_ok tells whether doc.save      *)
(* succeeds.  A failure has a description, str(e).                         *)
(***************************************************************************)
Raised(msg) == [kind |-> "raised", msg |-> msg]

Saved(mode, doc) == [kind |-> "saved", mode |-> mode, doc |-> doc]

WordTextOriginal(e) == << e >>

\* line 66
WordErrorText(e) == << "Error generating Word document: ", e >>

ModeAlwaysScratch(file) == "scratch"

\* line 55
WordMode(file) == IF file.exists THEN "fill" ELSE "scratch"

generate_word_document(d, file, save_ok) ==
    IF WordMode(file) = "fill" /\ ~file.valid
    THEN Raised(WordErrorText("Package not found"))
    ELSE LET doc == IF WordMode(file) = "fill"
                    THEN fill_word_template(file.doc, d)
                    ELSE create_word_document_from_scratch(d)
         IN  IF save_ok
             THEN Saved(WordMode(file), doc)
             ELSE Raised(WordErrorText("Permission denied"))

(***************************************************************************)
(* generate_pdf_document                                                   *)
(***************************************************************************)
TruncateOver == 50
TruncateKeep == 47

CutAtFifty(formatted_value) ==
    IF Len(formatted_value) >= TruncateOver
    THEN SubSeq(formatted_value, 1, TruncateKeep) \o <<".",".",".">>
    ELSE formatted_value

\* lines 249-250
Truncate(formatted_value) ==
    IF Len(formatted_value) > TruncateOver
    THEN SubSeq(formatted_value, 1, TruncateKeep) \o <<".",".",".">>
    ELSE formatted_value

\* lines 242-252
PdfRows(section_data) ==
    <<HeaderRow>> \o [i \in 1..Len(section_data) |->
                        << format_field_name(section_data[i].k),
                           Truncate(CellStr(section_data[i].v)) >>]

\* lines 233-271, for the sections from position i on
RECURSIVE PdfSections(_, _)
PdfSections(sections, i) ==
    IF i > Len(sections) THEN <<>>
    ELSE (IF sections[i].v = <<>> THEN <<>>
          ELSE << Heading(sections[i].k, 2), [el |-> "spacer"],
                  TableOf(PdfRows(sections[i].v)), [el |-> "spacer"] >>)
         \o PdfSections(sections, i + 1)

PdfTextOriginal(e) == << e >>

\* line 277
PdfErrorText(e) == << "Error generating PDF document: ", e >>

generate_pdf_document(d, save_ok) ==
    LET story == << Heading("EEG Score Checklist Report", 1),
                    Paragraph("Generated: <now>") >>
                 \o PdfSections(group_data_by_sections(d), 1)
    IN  IF save_ok
        THEN Saved("scratch", story)
        ELSE Raised(PdfErrorText("Permission denied"))

(***************************************************************************)
(* dynamic_form.py                                                         *)
(***************************************************************************)

(***************************************************************************)
(* datetime.now().strftime("%Y-%m-%d"): day 0 is 2024-12-31, so that the   *)
(* days of the model cross a month and a year.                             *)
(***************************************************************************)
DateOf(day) == IF day = 0 THEN [y |-> 2024, m |-> 12, d |-> 31]
               ELSE [y |-> 2025, m |-> 1, d |-> day]

\* %m and %d: two digits, zero-padded
TwoDigits(n) == <<Digits[(n \div 10) + 1], Digits[(n % 10) + 1]>>

DateStr(day) ==
    NatStr(DateOf(day).y) \o <<"-">> \o TwoDigits(DateOf(day).m)
    \o <<"-">> \o TwoDigits(DateOf(day).d)

TodayLiteral == Str(<<"t","o","d","a","y">>)

(***************************************************************************)
(* str.isdigit, int(), float(), str.strip(), bool()                        *)
(***************************************************************************)
DecimalChars == {Digits[i] : i \in 1..Len(Digits)}

\* characters str.isdigit accepts: the decimal digits, and digits such as a
\* superscript two that int() rejects
DigitChars == DecimalChars \cup {"^2"}

IsSpace(c) == c \in {" ", "\n", "\t"}

RECURSIVE LStrip(_)
LStrip(s) == IF s # <<>> /\ IsSpace(Head(s)) THEN LStrip(Tail(s)) ELSE s

RECURSIVE RStrip(_)
RStrip(s) == IF s # <<>> /\ IsSpace(s[Len(s)])
             THEN RStrip(SubSeq(s, 1, Len(s) - 1)) ELSE s

Strip(s) == RStrip(LStrip(s))

isdigit(s) == s # <<>> /\ \A i \in 1..Len(s) : s[i] \in DigitChars

AllDecimal(s) == \A i \in 1..Len(s) : s[i] \in DecimalChars

DigitValue(c) == (CHOOSE i \in 1..Len(Digits) : Digits[i] = c) - 1

RECURSIVE DecimalValue(_)
DecimalValue(s) ==
    IF s = <<>> THEN 0
    ELSE 10 * DecimalValue(SubSeq(s, 1, Len(s) - 1)) + DigitValue(s[Len(s)])

Unsigned(s) == IF s # <<>> /\ Head(s) \in {"-", "+"} THEN Tail(s) ELSE s

IsNegative(s) == s # <<>> /\ Head(s) = "-"

\* int(s) succeeds: blanks, a sign, decimal digits, blanks
IntParses(s) == Unsigned(Strip(s)) # <<>> /\ AllDecimal(Unsigned(Strip(s)))

IntOf(s) == IF IsNegative(Strip(s)) THEN 0 - DecimalValue(Unsigned(Strip(s)))
            ELSE DecimalValue(Unsigned(Strip(s)))

Dots(s) == {i \in 1..Len(s) : s[i] = "."}

IntegerPart(s) == IF Dots(s) = {} THEN s
                  ELSE SubSeq(s, 1, (CHOOSE i \in Dots(s) : TRUE) - 1)

FractionPart(s) == IF Dots(s) = {} THEN <<>>
                   ELSE SubSeq(s, (CHOOSE i \in Dots(s) : TRUE) + 1, Len(s))

\* float(s) succeeds: blanks, a sign, digits with at most one point, blanks
\* (exponents, inf and nan lie outside the characters of the model)
FloatParses(s) ==
    LET u == Unsigned(Strip(s))
    IN  /\ Cardinality(Dots(u)) <= 1
        /\ AllDecimal(IntegerPart(u))
        /\ AllDecimal(FractionPart(u))
        /\ IntegerPart(u) \o FractionPart(u) # <<>>

RECURSIVE DropZeros(_)
DropZeros(s) == IF s # <<>> /\ s[Len(s)] = "0"
                THEN DropZeros(SubSeq(s, 1, Len(s) - 1)) ELSE s

FloatOf(s) ==
    LET u  == Unsigned(Strip(s))
        fp == DropZeros(FractionPart(u))
    IN  FloatV(IsNegative(Strip(s)), DecimalValue(IntegerPart(u) \o fp), Len(fp))

\* line 214 with the except of lines 215-216
Coerce(value) ==
    IF isdigit(value)
    THEN (IF AllDecimal(value) THEN IntV(DecimalValue(value)) ELSE Str(value))
    ELSE (IF FloatParses(value) THEN FloatOf(value) ELSE Str(value))

\* bool(value)
PyBool(v) ==
    CASE v.t = "str"   -> v.s # <<>>
      [] v.t = "int"   -> v.n # 0
      [] v.t = "float" -> v.num # 0
      [] v.t = "bool"  -> v.b
      [] v.t = "none"  -> FALSE

\* tk.getboolean, as BooleanVar(value=...) applies it; None leaves the variable
\* at its default, False
GetBoolean(v) ==
    CASE v.t = "bool" -> [ok |-> TRUE, b |-> v.b]
      [] v.t = "int"  -> [ok |-> TRUE, b |-> v.n # 0]
      [] v.t = "none" -> [ok |-> TRUE, b |-> FALSE]
      [] v.t = "str" /\ v.s \in { <<"1">>, <<"t","r","u","e">> }
                      -> [ok |-> TRUE, b |-> TRUE]
      [] v.t = "str" /\ v.s \in { <<"0">>, <<"f","a","l","s","e">> }
                      -> [ok |-> TRUE, b |-> FALSE]
      [] OTHER        -> [ok |-> FALSE, b |-> FALSE]

(***************************************************************************)
(* Templates: self.template is what json.load returned.                    *)
(***************************************************************************)
Missing == [t |-> "missing"]

Field(id, type, default) == [id |-> id, type |-> type, default |-> default, options |-> <<>>]

SelectField(id, default, options) ==
    [id |-> id, type |-> "select", default |-> default, options |-> options]

Section(fields) == [has_title |-> TRUE, fields |-> fields]

Template(sections) == [kind |-> "dict", sections |-> sections]

\* self.template.get('sections', [])
SectionsOf(tpl) == IF tpl.kind = "dict" THEN tpl.sections ELSE <<>>

RECURSIVE FieldsFrom(_, _)
FieldsFrom(sections, i) ==
    IF i > Len(sections) THEN <<>>
    ELSE sections[i].fields \o FieldsFrom(sections, i + 1)

\* every FieldSpec of the template, in declaration order
FieldsOf(tpl) == FieldsFrom(SectionsOf(tpl), 1)

DefaultIsId(f) == Str(f.id)

\* field_config.get('default', '')
DefaultOf(f) == IF f.default = Missing THEN Str(<<>>) ELSE f.default

(***************************************************************************)
(* create_sections / create_section / create_field                         *)
(***************************************************************************)
StringVar(s)  == [cls |-> "StringVar", value |-> s]
BooleanVar(b) == [cls |-> "BooleanVar", flag |-> b]

Entry        == [cls |-> "Entry"]
Combobox     == [cls |-> "Combobox"]
Checkbutton  == [cls |-> "Checkbutton"]
ScrolledText(text) == [cls |-> "ScrolledText", text |-> text]

NoError == "none"

Controls(vs, ws, error) == [variables |-> vs, widgets |-> ws, error |-> error]

\* lines 168-169
StoreWidget(ws, field_id, widget) ==
    IF DictHas(ws, field_id) THEN ws ELSE DictSet(ws, field_id, widget)

\* lines 130-131
ResolveToday(default_value, day) ==
    IF default_value = TodayLiteral THEN Str(DateStr(day)) ELSE default_value

\* lines 122-169
create_field(ctl, f, day) ==
    LET default_value == ResolveToday(DefaultOf(f), day)
        vs == ctl.variables
        ws == ctl.widgets
    IN  CASE f.type = "checkbox" ->
               IF GetBoolean(default_value).ok
               THEN Controls(DictSet(vs, f.id, BooleanVar(GetBoolean(default_value).b)),
                             StoreWidget(ws, f.id, Checkbutton), NoError)
               ELSE Controls(vs, ws, "expected boolean value")
          [] f.type \in {"text", "date", "number"} ->
               Controls(DictSet(vs, f.id, StringVar(PyStr(default_value))),
                        StoreWidget(ws, f.id, Entry), NoError)
          [] f.type = "select" ->
               Controls(DictSet(vs, f.id, StringVar(PyStr(default_value))),
                        StoreWidget(ws, f.id, Combobox), NoError)
          [] f.type = "textarea" ->
               Controls(vs, DictSet(ws, f.id, ScrolledText(PyStr(default_value))), NoError)
          [] OTHER ->
               \* no branch bound `widget`: line 169 raises unless the id has a widget
               IF DictHas(ws, f.id) THEN Controls(vs, ws, NoError)
               ELSE Controls(vs, ws, "local variable 'widget' referenced before assignment")

\* lines 117-118, stopping at the first exception
RECURSIVE CreateFields(_, _, _, _)
CreateFields(ctl, fields, i, day) ==
    IF i > Len(fields) \/ ctl.error # NoError THEN ctl
    ELSE CreateFields(create_field(ctl, fields[i], day), fields, i + 1, day)

\* lines 112-120: section_config['title'] is read before any field is made
create_section(ctl, section, day) ==
    IF ~section.has_title THEN Controls(ctl.variables, ctl.widgets, "'title'")
    ELSE CreateFields(ctl, section.fields, 1, day)

\* lines 107-110
RECURSIVE CreateSectionsFrom(_, _, _, _)
CreateSectionsFrom(ctl, sections, i, day) ==
    IF i > Len(sections) \/ ctl.error # NoError THEN ctl
    ELSE CreateSectionsFrom(create_section(ctl, sections[i], day), sections, i + 1, day)

create_sections(ctl, tpl, day) ==
    IF tpl.kind # "dict"
    THEN Controls(ctl.variables, ctl.widgets, "'list' object has no attribute 'get'")
    ELSE CreateSectionsFrom(ctl, tpl.sections, 1, day)

(***************************************************************************)
(* collect_data / is_number_field                                          *)
(***************************************************************************)
\* lines 227-233: the type of the first FieldSpec with that id
is_number_field(tpl, field_id) ==
    LET fields == FieldsOf(tpl)
        hits   == {i \in 1..Len(fields) : fields[i].id = field_id}
    IN  IF hits = {} THEN FALSE
        ELSE fields[CHOOSE i \in hits : \A j \in hits : i <= j].type = "number"

\* lines 207-218
VariableValue(tpl, field_id, var) ==
    IF var.cls = "BooleanVar" THEN BoolV(var.flag)
    ELSE IF is_number_field(tpl, field_id) /\ var.value # <<>>
         THEN Coerce(var.value)
         ELSE Str(var.value)

RECURSIVE CollectVariables(_, _, _, _)
CollectVariables(d, tpl, vs, i) ==
    IF i > Len(vs) THEN d
    ELSE CollectVariables(DictSet(d, vs[i].k, VariableValue(tpl, vs[i].k, vs[i].v)),
                          tpl, vs, i + 1)

\* lines 221-223: widget.get("1.0", tk.END) ends with the newline tk appends
RECURSIVE CollectTextAreas(_, _, _)
CollectTextAreas(d, ws, i) ==
    IF i > Len(ws) THEN d
    ELSE CollectTextAreas(IF ws[i].v.cls = "ScrolledText"
                          THEN DictSet(d, ws[i].k, Str(Strip(ws[i].v.text \o <<"\n">>)))
                          ELSE d,
                          ws, i + 1)

collect_data(tpl, vs, ws) == CollectTextAreas(CollectVariables(<<>>, tpl, vs, 1), ws, 1)

(***************************************************************************)
(* clear_form, lines 254-273                                               *)
(***************************************************************************)
\* lines 259-266
ClearVariable(vs, f, day) ==
    IF ~DictHas(vs, f.id) THEN vs
    ELSE IF DictGet(vs, f.id).cls = "BooleanVar"
         THEN DictSet(vs, f.id, BooleanVar(PyBool(DefaultOf(f))))
         ELSE DictSet(vs, f.id, StringVar(PyStr(ResolveToday(DefaultOf(f), day))))

\* default_value as it stands at line 269: "today" was resolved only inside the
\* string-variable branch
DefaultAfterVariable(vs, f, day) ==
    IF DictHas(vs, f.id) /\ DictGet(vs, f.id).cls # "BooleanVar"
    THEN ResolveToday(DefaultOf(f), day)
    ELSE DefaultOf(f)

\* lines 269-273
ClearTextArea(vs, ws, f, day) ==
    IF DictHas(ws, f.id) /\ DictGet(ws, f.id).cls = "ScrolledText"
    THEN DictSet(ws, f.id,
                 ScrolledText(IF PyBool(DefaultAfterVariable(vs, f, day))
                              THEN PyStr(DefaultAfterVariable(vs, f, day))
                              ELSE <<>>))
    ELSE ws

RECURSIVE ClearFields(_, _, _, _)
ClearFields(ctl, fields, i, day) ==
    IF i > Len(fields) THEN ctl
    ELSE ClearFields(Controls(ClearVariable(ctl.variables, fields[i], day),
                              ClearTextArea(ctl.variables, ctl.widgets, fields[i], day),
                              NoError),
                     fields, i + 1, day)

(***************************************************************************)
(* Inputs of the grouping specification: keys built from the table's       *)
(* prefixes, from near misses of them, and from unrelated text.            *)
(***************************************************************************)
GroupStems ==
    {field_mapping[i].prefix : i \in 1..Len(field_mapping)}
    \cup { <<>>,
           <<"p","a","t","i","e","n","t">>,
           <<"h","v">>,
           <<"x","h","v","_">> }

GroupSuffixes == { <<>>, <<"x">> }

GroupKeys == {stem \o suf : stem \in GroupStems, suf \in GroupSuffixes}

GroupValues == { Str(<<"v">>), IntV(7) }

NoResult == [kind |-> "none"]

NoFile == [exists |-> FALSE]

(***************************************************************************)
(* The form at rest, for the specifications of the generator alone.        *)
(***************************************************************************)
NoDialog == [kind |-> "none"]

FormIdle ==
    /\ phase = "new"
    /\ template = [kind |-> "unset"]
    /\ variables = <<>>
    /\ widgets = <<>>
    /\ output_text = [kind |-> "absent"]
    /\ dialog = NoDialog
    /\ running = TRUE
    /\ today = 0

\* the caller builds the dict: data[key] = value
Put(keys, values) ==
    /\ called = "none"
    /\ \E key \in keys, value \in values :
          /\ Len(DictSet(data, key, value)) <= MaxKeys
          /\ data' = DictSet(data, key, value)
    /\ UNCHANGED <<called, result, word_template>>
    /\ UNCHANGED formVars

PutKey == Put(GroupKeys, GroupValues)

CallGroup ==
    /\ called = "none"
    /\ called' = "group"
    /\ result' = [kind |-> "sections", sections |-> group_data_by_sections(data)]
    /\ UNCHANGED <<data, word_template>>
    /\ UNCHANGED formVars

InitGroup ==
    /\ data = <<>>
    /\ called = "none"
    /\ result = NoResult
    /\ word_template = NoFile
    /\ FormIdle

NextGroup == PutKey \/ CallGroup

SpecGroup == InitGroup /\ [][NextGroup]_vars

(***************************************************************************)
(* C1: _group_data_by_sections places every key of FormData in exactly one *)
(* section: the section of the first rule, in the declared order of the    *)
(* prefix table, whose prefix the key starts with; a key that starts with  *)
(* no prefix is placed in Other, and only such keys are; the value stored  *)
(* is the FormData value.                                                  *)
(***************************************************************************)
RulesHit(key) == {i \in 1..Len(field_mapping) : startswith(key, field_mapping[i].prefix)}

FirstRule(key) == CHOOSE i \in RulesHit(key) : \A j \in RulesHit(key) : i <= j

ClaimedSection(key) ==
    IF RulesHit(key) = {} THEN "Other" ELSE field_mapping[FirstRule(key)].section

Holders(secs, key) == {i \in 1..Len(secs) : DictHas(secs[i].v, key)}

C1_GroupPlacesEachKeyOnce ==
    called = "group" =>
        LET secs == result.sections
        IN  /\ \A key \in DictKeys(data) :
                  /\ Cardinality(Holders(secs, key)) = 1
                  /\ \A i \in Holders(secs, key) :
                        /\ secs[i].k = ClaimedSection(key)
                        /\ DictGet(secs[i].v, key) = DictGet(data, key)
                        /\ Cardinality({j \in 1..Len(secs[i].v) : secs[i].v[j].k = key}) = 1
            /\ \A i \in 1..Len(secs) :
                  DictKeys(secs[i].v) \subseteq DictKeys(data)

\* a key under a prefix and a key under none have both been grouped
C1_Witness ==
    /\ called = "group"
    /\ \E a, b \in DictKeys(data) :
          /\ RulesHit(a) # {}
          /\ Len(a) > Len(field_mapping[FirstRule(a)].prefix)
          /\ RulesHit(b) = {}
          /\ b # <<>>

(***************************************************************************)
(* Template-fill on its own: a template document, a dict, one call of      *)
(* _fill_word_template.                                                    *)
(***************************************************************************)
k_a == <<"a">>
k_b == <<"b">>
k_c == <<"c">>

FillKeys == { k_a, k_b }

FillValues == { Str(<<"J">>), IntV(30), BoolV(TRUE), Str(Placeholder(k_b)) }

FillRuns ==
    { Placeholder(k_a), Placeholder(k_b), Placeholder(k_c),
      <<"n",":">>, <<"{","{">>, <<"a","}","}">> }

FillPars == {<<r>> : r \in FillRuns} \cup {<<r1, r2>> : r1, r2 \in FillRuns}

FillCellPars == { <<Placeholder(k_a)>>, <<Placeholder(k_b), <<"n",":">> >>,
                  <<Placeholder(k_c)>>, << <<"n",":">> >> }

OneCellTable(par) == << << << par >> >> >>

FillDocs ==
    { [paragraphs |-> <<>>, tables |-> <<>>] }
    \cup { [paragraphs |-> <<par>>, tables |-> <<>>] : par \in FillPars }
    \cup { [paragraphs |-> <<>>, tables |-> <<OneCellTable(par)>>] : par \in FillPars }
    \cup { [paragraphs |-> <<p1, p2>>, tables |-> <<OneCellTable(p3)>>] :
              p1 \in FillCellPars, p2 \in FillCellPars, p3 \in FillCellPars }

TemplateFile(doc) == [exists |-> TRUE, valid |-> TRUE, doc |-> doc]

PutFillKey == Put(FillKeys, FillValues)

CallFill ==
    /\ called = "none"
    /\ called' = "fill"
    /\ result' = [kind |-> "doc", doc |-> fill_word_template(word_template.doc, data)]
    /\ UNCHANGED <<data, word_template>>
    /\ UNCHANGED formVars

InitFill ==
    /\ data = <<>>
    /\ called = "none"
    /\ result = NoResult
    /\ word_template \in {TemplateFile(doc) : doc \in FillDocs}
    /\ FormIdle

NextFill == PutFillKey \/ CallFill

SpecFill == InitFill /\ [][NextFill]_vars

(***************************************************************************)
(* C2: template-fill leaves in every paragraph, of the body and of the     *)
(* table cells, the original text with each token {{key}} of a key of      *)
(* FormData replaced by str(FormData[key]); tokens of absent keys stay,    *)
(* and a paragraph with no token of a present key is not rewritten.        *)
(***************************************************************************)
TokensAt(s, d) == {i \in 1..Len(d) : startswith(s, Placeholder(d[i].k))}

\* the original text with its tokens replaced, the inserted text left alone
RECURSIVE Substituted(_, _)
Substituted(s, d) ==
    IF s = <<>> THEN <<>>
    ELSE IF TokensAt(s, d) = {} THEN <<Head(s)>> \o Substituted(Tail(s), d)
    ELSE LET i == CHOOSE i \in TokensAt(s, d) : TRUE
         IN  PyStr(d[i].v)
             \o Substituted(SubSeq(s, Len(Placeholder(d[i].k)) + 1, Len(s)), d)

HasToken(s, d) == \E i \in 1..Len(d) : Contains(s, Placeholder(d[i].k))

C2_ParFilled(before, after, d) ==
    /\ ParText(after) = Substituted(ParText(before), d)
    /\ ~HasToken(ParText(before), d) => after = before

C2_FillReplacesTokens ==
    called = "fill" =>
        LET old == word_template.doc
            new == result.doc
        IN  /\ \A i \in 1..Len(old.paragraphs) :
                  C2_ParFilled(old.paragraphs[i], new.paragraphs[i], data)
            /\ \A t \in 1..Len(old.tables) :
                 \A r \in 1..Len(old.tables[t]) :
                   \A c \in 1..Len(old.tables[t][r]) :
                     \A i \in 1..Len(old.tables[t][r][c]) :
                        C2_ParFilled(old.tables[t][r][c][i], new.tables[t][r][c][i], data)

(***************************************************************************)
(* The two exports on their own: a dict, what lies at word_template_path,  *)
(* one call of generate_word_document or generate_pdf_document.            *)
(***************************************************************************)
k_x    == <<"x">>
k_hv_a == <<"h","v","_","a">>
k_patient_name == <<"p","a","t","i","e","n","t","_","n","a","m","e">>

\* a text of n characters, each telling its position
LongText(n) == [i \in 1..n |-> Digits[(i % 10) + 1]]

ExportKeys == { k_x, k_hv_a, k_patient_name }

ExportValues ==
    { Str(<<>>), Str(<<"J">>), NoneV, IntV(30),
      Str(LongText(TruncateKeep)), Str(LongText(TruncateOver - 1)),
      Str(LongText(TruncateOver)), Str(LongText(TruncateOver + 1)),
      Str(LongText(TruncateOver + 10)) }

ExportDoc ==
    [paragraphs |-> << << <<"N",":">>, Placeholder(k_x) >> >>,
     tables     |-> << OneCellTable(<< Placeholder(k_hv_a) >>) >>]

ExportTemplates ==
    { NoFile,
      [exists |-> TRUE, valid |-> FALSE],
      TemplateFile(ExportDoc) }

PutExportKey == Put(ExportKeys, ExportValues)

CallWord ==
    /\ called = "none"
    /\ called' = "word"
    /\ \E save_ok \in BOOLEAN :
          result' = generate_word_document(data, word_template, save_ok)
    /\ UNCHANGED <<data, word_template>>
    /\ UNCHANGED formVars

CallPdf ==
    /\ called = "none"
    /\ called' = "pdf"
    /\ \E save_ok \in BOOLEAN :
          result' = generate_pdf_document(data, save_ok)
    /\ UNCHANGED <<data, word_template>>
    /\ UNCHANGED formVars

InitExport ==
    /\ data = <<>>
    /\ called = "none"
    /\ result = NoResult
    /\ word_template \in ExportTemplates
    /\ FormIdle

NextExport == PutExportKey \/ CallWord \/ CallPdf

SpecExport == InitExport /\ [][NextExport]_vars

(***************************************************************************)
(* C9: in the PDF, a value whose string form is longer than 50 characters  *)
(* is shown as its first 47 characters followed by "...", 50 characters in *)
(* all; one of 50 characters or fewer is shown unchanged; None is shown as *)
(* the empty string.                                                       *)
(***************************************************************************)
\* the second column of every body row of every table of the story
RECURSIVE TableCells(_, _)
TableCells(doc, i) ==
    IF i > Len(doc) THEN <<>>
    ELSE (IF doc[i].el = "table"
          THEN [r \in 1..(Len(doc[i].rows) - 1) |-> doc[i].rows[r + 1]]
          ELSE <<>>)
         \o TableCells(doc, i + 1)

C9_Shown(value) ==
    IF value.t = "none" THEN <<>>
    ELSE IF Len(PyStr(value)) > 50
         THEN SubSeq(PyStr(value), 1, 47) \o <<".",".",".">>
         ELSE PyStr(value)

C9_PdfCellTruncated ==
    (called = "pdf" /\ result.kind = "saved") =>
        LET cells == TableCells(result.doc, 1)
        IN  /\ Len(cells) = Len(data)
            /\ \A i \in 1..Len(data) :
                  \E j \in 1..Len(cells) :
                     /\ cells[j][1] = format_field_name(data[i].k)
                     /\ cells[j][2] = C9_Shown(data[i].v)
                     /\ Len(cells[j][2]) <= 50
                     /\ Len(PyStr(data[i].v)) > 50 => Len(cells[j][2]) = 50

\* a value of 50 characters, one of 51 and a None have been exported
C9_Witness ==
    /\ called = "pdf"
    /\ result.kind = "saved"
    /\ \E i, j \in 1..Len(data) :
          /\ data[i].v.t = "str" /\ Len(data[i].v.s) > 50
          /\ data[j].v.t = "str" /\ Len(data[j].v.s) = 50

(***************************************************************************)
(* C10: Word export fills the template exactly when the template file      *)
(* exists at export time and synthesizes the document otherwise; the       *)
(* synthesized document has one heading and one Field/Value table for each *)
(* non-empty ReportSection and none for an empty one, None shown as the    *)
(* empty string.  PDF export never uses the template file.                 *)
(***************************************************************************)
IsSynthesized(doc) == DOMAIN doc = 1..Len(doc) /\ Len(doc) >= 2 /\ doc[1].el = "heading"

RECURSIVE SectionHeadings(_, _, _)
SectionHeadings(doc, i, level) ==
    IF i > Len(doc) THEN <<>>
    ELSE (IF doc[i].el = "heading" /\ doc[i].level = level THEN <<i>> ELSE <<>>)
         \o SectionHeadings(doc, i + 1, level)

KeysOf(d, section) == {key \in DictKeys(d) : ClaimedSection(key) = section}

NonEmptySections(d) == {ClaimedSection(key) : key \in DictKeys(d)}

C10_ScratchShape(doc, d) ==
    LET hs == SectionHeadings(doc, 1, 1)
    IN  /\ {doc[hs[n]].text : n \in 1..Len(hs)} = NonEmptySections(d)
        /\ Len(hs) = Cardinality(NonEmptySections(d))
        /\ Cardinality({i \in 1..Len(doc) : doc[i].el = "table"}) = Len(hs)
        /\ \A n \in 1..Len(hs) :
              LET table == doc[hs[n] + 1]
              IN  /\ table.el = "table"
                  /\ table.rows[1] = << "Field", "Value" >>
                  /\ Len(table.rows) = 1 + Cardinality(KeysOf(d, doc[hs[n]].text))
                  /\ \A r \in 2..Len(table.rows) : Len(table.rows[r]) = 2
        /\ \A i \in 1..Len(d) :
              d[i].v.t = "none" =>
                 \E n \in 1..Len(doc) :
                    /\ doc[n].el = "table"
                    /\ \E r \in 2..Len(doc[n].rows) :
                          doc[n].rows[r] = << format_field_name(d[i].k), <<>> >>

IsFilled(doc, tpl) ==
    /\ DOMAIN doc = {"paragraphs", "tables"}
    /\ Len(doc.paragraphs) = Len(tpl.paragraphs)
    /\ Len(doc.tables) = Len(tpl.tables)
    /\ \A i \in 1..Len(tpl.paragraphs) :
          ~HasToken(ParText(tpl.paragraphs[i]), data) =>
             doc.paragraphs[i] = tpl.paragraphs[i]

C10_WordModeFollowsTemplate ==
    /\ (called = "word" /\ result.kind = "saved") =>
          IF word_template.exists
          THEN result.mode = "fill" /\ IsFilled(result.doc, word_template.doc)
          ELSE /\ result.mode = "scratch"
               /\ IsSynthesized(result.doc)
               /\ C10_ScratchShape(result.doc, data)
    /\ (called = "word" /\ result.kind = "raised" /\ ~word_template.exists) =>
          result.msg[2] = "Permission denied"
    /\ (called = "pdf" /\ result.kind = "saved") =>
          /\ result.mode = "scratch"
          /\ IsSynthesized(result.doc)
          /\ LET hs == SectionHeadings(result.doc, 1, 2)
             IN  {result.doc[hs[n]].text : n \in 1..Len(hs)} = NonEmptySections(data)

\* a synthesized Word document with two sections and a None value
C10_Witness ==
    /\ called = "word"
    /\ result.kind = "saved"
    /\ ~word_template.exists
    /\ Cardinality(NonEmptySections(data)) = 2
    /\ \E i \in 1..Len(data) : data[i].v.t = "none"

(***************************************************************************)
(* The session: DynamicFormGUI from main() on, driven by the user.         *)
(***************************************************************************)
MaxDay == 1

id_patient_age  == <<"p","a","t","i","e","n","t","_","a","g","e">>
id_study_date   == <<"s","t","u","d","y","_","d","a","t","e">>
id_sedated      == <<"s","e","d","a","t","e","d">>
id_notes        == <<"n","o","t","e","s">>
id_visit_kind   == <<"v","i","s","i","t","_","k","i","n","d">>
id_seizures     == <<"s","e","i","z","u","r","e","s">>
id_patient_code == <<"p","a","t","i","e","n","t","_","c","o","d","e">>

t_abc == <<"a","b","c">>

\* create_default_template, lines 37-55
DefaultTemplate ==
    Template(<< Section(<< Field(k_patient_name, "text", Str(<<>>)),
                           Field(id_patient_age, "number", Str(<<>>)) >>) >>)

StudyTemplate ==
    Template(<< Section(<< Field(id_study_date, "date", TodayLiteral),
                           Field(id_sedated, "checkbox", BoolV(TRUE)) >>),
                Section(<< Field(id_notes, "textarea", TodayLiteral) >>) >>)

VisitTemplate ==
    Template(<< Section(<< SelectField(id_visit_kind, TodayLiteral,
                                       << <<"f","i","r","s","t">>,
                                          <<"r","e","p","e","a","t">> >>),
                           Field(id_seizures, "number", TodayLiteral) >>) >>)

CodeTemplate ==
    Template(<< Section(<< Field(id_patient_code, "text", TodayLiteral) >>) >>)

\* a section without 'title'
UntitledTemplate ==
    Template(<< [has_title |-> FALSE,
                 fields |-> << Field(id_notes, "textarea", Str(t_abc)) >>] >>)

\* a field of a type create_field has no branch for, after a good one
UnknownTypeTemplate ==
    Template(<< Section(<< Field(id_patient_code, "text", Missing),
                           Field(id_notes, "slider", Str(<<>>)) >>) >>)

\* valid JSON that is no object
ListTemplate == [kind |-> "list"]

GoodTemplates == { DefaultTemplate, StudyTemplate, VisitTemplate, CodeTemplate }

BadTemplates == { UntitledTemplate, UnknownTypeTemplate, ListTemplate }

\* what the user may pick in the open dialog
JsonFile(content) == [chosen |-> TRUE, readable |-> TRUE, parses |-> TRUE, content |-> content]

NoSelection == [chosen |-> FALSE]

TemplateFiles ==
    { NoSelection,
      [chosen |-> TRUE, readable |-> FALSE],
      [chosen |-> TRUE, readable |-> TRUE, parses |-> FALSE] }
    \cup { JsonFile(tpl) : tpl \in GoodTemplates \cup BadTemplates }

\* what may lie at self.template_file when the program starts
StartupFiles ==
    { [exists |-> FALSE],
      [exists |-> TRUE, parses |-> FALSE] }
    \cup { [exists |-> TRUE, parses |-> TRUE, content |-> tpl] :
              tpl \in {StudyTemplate, VisitTemplate, UnknownTypeTemplate} }

\* what the user may type
NumberTexts == { <<"4","2">>, <<"3",".","5">>, t_abc, <<"-","5">>, <<"^2">> }
TextTexts   == { t_abc, <<"4","2">> }
AreaTexts   == { t_abc, <<" ">> \o t_abc \o <<"\n">> }

Info(msg)  == [kind |-> "info", msg |-> msg]
Error(msg) == [kind |-> "error", msg |-> msg]

View(shown) == [kind |-> "view", shown |-> shown]

\* the result view exists; the buttons, made right before it and destroyed with
\* it, exist exactly then
ButtonsShown == output_text.kind = "view"

Alive == phase = "ready" /\ running

(***************************************************************************)
(* __init__: load_template, then create_interface                          *)
(***************************************************************************)
\* lines 22-33: the template, the dialog and the window as load_template
\* leaves them; on an exception self.template is never assigned
load_template(file) ==
    IF file.exists /\ ~file.parses
    THEN [template |-> template,
          dialog   |-> Error(<<"Template loading error: ", "Expecting value">>),
          running  |-> FALSE]
    ELSE [template |-> IF file.exists THEN file.content ELSE DefaultTemplate,
          dialog   |-> dialog,
          running  |-> running]

\* lines 60-98: line 63 reads self.template before anything is built
create_interface(tpl, day) ==
    IF tpl.kind = "unset"
    THEN Controls(<<>>, <<>>, "'DynamicFormGUI' object has no attribute 'template'")
    ELSE create_sections(Controls(<<>>, <<>>, NoError), tpl, day)

\* lines 9-20: create_interface is called whatever load_template did
ConstructFrom(file) ==
    /\ phase = "new"
    /\ UNCHANGED today
    /\ UNCHANGED genVars
    /\ LET loaded == load_template(file)
           ctl    == create_interface(loaded.template, today)
       IN  /\ template' = loaded.template
           /\ dialog' = loaded.dialog
           /\ running' = loaded.running
           /\ variables' = ctl.variables
           /\ widgets' = ctl.widgets
           /\ IF ctl.error = NoError
              THEN phase' = "ready" /\ output_text' = View(<<>>)
              ELSE phase' = "crashed" /\ UNCHANGED output_text

Construct == \E file \in StartupFiles : ConstructFrom(file)

(***************************************************************************)
(* The user at the controls, and the calendar                              *)
(***************************************************************************)
FieldOf(field_id) ==
    LET fields == FieldsOf(template)
    IN  fields[CHOOSE i \in 1..Len(fields) : fields[i].id = field_id]

EditEntry ==
    /\ Alive
    /\ \E i \in 1..Len(variables) :
          /\ DictHas(widgets, variables[i].k)
          /\ DictGet(widgets, variables[i].k).cls = "Entry"
          /\ \E text \in (IF FieldOf(variables[i].k).type = "number"
                          THEN NumberTexts ELSE TextTexts) :
                variables' = DictSet(variables, variables[i].k, StringVar(text))
    /\ UNCHANGED <<phase, template, widgets, output_text, dialog, running, today>>
    /\ UNCHANGED genVars

SelectOption ==
    /\ Alive
    /\ \E i \in 1..Len(variables) :
          /\ DictHas(widgets, variables[i].k)
          /\ DictGet(widgets, variables[i].k).cls = "Combobox"
          /\ \E n \in 1..Len(FieldOf(variables[i].k).options) :
                variables' = DictSet(variables, variables[i].k,
                                     StringVar(FieldOf(variables[i].k).options[n]))
    /\ UNCHANGED <<phase, template, widgets, output_text, dialog, running, today>>
    /\ UNCHANGED genVars

ToggleCheckbox ==
    /\ Alive
    /\ \E i \in 1..Len(variables) :
          /\ variables[i].v.cls = "BooleanVar"
          /\ variables' = DictSet(variables, variables[i].k,
                                  BooleanVar(~variables[i].v.flag))
    /\ UNCHANGED <<phase, template, widgets, output_text, dialog, running, today>>
    /\ UNCHANGED genVars

EditTextArea ==
    /\ Alive
    /\ \E i \in 1..Len(widgets) :
          /\ widgets[i].v.cls = "ScrolledText"
          /\ \E text \in AreaTexts :
                widgets' = DictSet(widgets, widgets[i].k, ScrolledText(text))
    /\ UNCHANGED <<phase, template, variables, output_text, dialog, running, today>>
    /\ UNCHANGED genVars

Midnight ==
    /\ today < MaxDay
    /\ today' = today + 1
    /\ UNCHANGED <<phase, template, variables, widgets, output_text, dialog, running>>
    /\ UNCHANGED genVars

(***************************************************************************)
(* The handlers                                                            *)
(***************************************************************************)
\* lines 235-250; the clipboard is not modelled
generate_json ==
    /\ Alive /\ ButtonsShown
    /\ output_text' = View(<< collect_data(template, variables, widgets) >>)
    /\ dialog' = Info(<<"JSON generated and copied to clipboard!">>)
    /\ UNCHANGED <<phase, template, variables, widgets, running, today>>
    /\ UNCHANGED genVars

\* lines 252-276
clear_form ==
    /\ Alive /\ ButtonsShown
    /\ LET ctl == ClearFields(Controls(variables, widgets, NoError),
                              FieldsOf(template), 1, today)
       IN  /\ variables' = ctl.variables
           /\ widgets' = ctl.widgets
    /\ output_text' = View(<<>>)
    /\ UNCHANGED <<phase, template, dialog, running, today>>
    /\ UNCHANGED genVars

SaveErrorOriginal(what, raised) == Error(raised.msg)

\* lines 292-293 and 309-310
SaveError(what, raised) == Error(<<what>> \o raised.msg)

\* lines 278-293; chosen is FALSE when the user cancels the save dialog
SaveToWordWith(chosen, file, save_ok) ==
    /\ Alive /\ ButtonsShown
    /\ UNCHANGED <<phase, template, variables, widgets, output_text, running, today>>
    /\ UNCHANGED genVars
    /\ IF ~chosen THEN UNCHANGED dialog
       ELSE LET r == generate_word_document(collect_data(template, variables, widgets),
                                            file, save_ok)
            IN  dialog' = IF r.kind = "raised"
                          THEN SaveError("Error saving Word document:\n", r)
                          ELSE Info(<<"Document saved to:\n", "<filename>">>)

save_to_word ==
    \E chosen \in BOOLEAN, file \in ExportTemplates, save_ok \in BOOLEAN :
        SaveToWordWith(chosen, file, save_ok)

\* lines 295-310
SaveToPdfWith(chosen, save_ok) ==
    /\ Alive /\ ButtonsShown
    /\ UNCHANGED <<phase, template, variables, widgets, output_text, running, today>>
    /\ UNCHANGED genVars
    /\ IF ~chosen THEN UNCHANGED dialog
       ELSE LET r == generate_pdf_document(collect_data(template, variables, widgets),
                                           save_ok)
            IN  dialog' = IF r.kind = "raised"
                          THEN SaveError("Error saving PDF document:\n", r)
                          ELSE Info(<<"Document saved to:\n", "<filename>">>)

save_to_pdf ==
    \E chosen \in BOOLEAN, save_ok \in BOOLEAN : SaveToPdfWith(chosen, save_ok)

KeptControls(d) == d

\* lines 328-329: dict.clear()
ClearedControls(d) == <<>>

\* lines 312-338; the menu entry outlives the buttons
LoadTemplateFileFrom(file) ==
    /\ Alive
    /\ UNCHANGED <<phase, running, today>>
    /\ UNCHANGED genVars
    /\ IF ~file.chosen
       THEN UNCHANGED <<template, variables, widgets, output_text, dialog>>
       ELSE IF ~file.readable
       THEN /\ dialog' = Error(<<"Template loading error: ", "No such file or directory">>)
            /\ UNCHANGED <<template, variables, widgets, output_text>>
       ELSE IF ~file.parses
       THEN /\ dialog' = Error(<<"Template loading error: ", "Expecting value">>)
            /\ UNCHANGED <<template, variables, widgets, output_text>>
       ELSE LET ctl == create_sections(Controls(ClearedControls(variables),
                                                ClearedControls(widgets), NoError),
                                       file.content, today)
            IN  /\ template' = file.content
                /\ variables' = ctl.variables
                /\ widgets' = ctl.widgets
                /\ IF ctl.error = NoError
                   THEN /\ output_text' = View(<<>>)
                        /\ dialog' = Info(<<"Template loaded successfully!">>)
                   ELSE /\ output_text' = [kind |-> "destroyed"]
                        /\ dialog' = Error(<<"Template loading error: ", ctl.error>>)

load_template_file == \E file \in TemplateFiles : LoadTemplateFileFrom(file)

GeneratorIdle ==
    /\ data = <<>>
    /\ called = "none"
    /\ result = NoResult
    /\ word_template = NoFile

Init == FormIdle /\ GeneratorIdle

Next ==
    \/ Construct
    \/ EditEntry
    \/ SelectOption
    \/ ToggleCheckbox
    \/ EditTextArea
    \/ Midnight
    \/ generate_json
    \/ clear_form
    \/ save_to_word
    \/ save_to_pdf
    \/ load_template_file

Spec == Init /\ [][Next]_vars

(***************************************************************************)
(* C3: collect_data gives, for a field typed "number" with a non-empty     *)
(* value, the integer if the text parses as an integer, else the float if  *)
(* it parses as a float, else the raw text; for an empty value or a field  *)
(* of another type, the raw text.  Stated of generate_json, which shows    *)
(* what collect_data returned.                                             *)
(***************************************************************************)
C3_Expected(type, value) ==
    IF type = "number" /\ value # <<>>
    THEN (IF IntParses(value) THEN IntV(IntOf(value))
          ELSE IF FloatParses(value) THEN FloatOf(value)
          ELSE Str(value))
    ELSE Str(value)

C3_NumberCoercion ==
    [][ generate_json =>
          \A i \in 1..Len(variables) :
             variables[i].v.cls = "StringVar" =>
                DictGet(output_text'.shown[1], variables[i].k)
                   = C3_Expected(FieldOf(variables[i].k).type, variables[i].v.value) ]_vars

(***************************************************************************)
(* C4: a control whose FieldSpec default is "today", of type text, number, *)
(* date, select or textarea, shows the current date as YYYY-MM-DD right    *)
(* after construction and right after every clear_form, never "today".     *)
(***************************************************************************)
\* what the control of a field shows
Shown(vs, ws, f) ==
    IF f.type = "textarea" THEN DictGet(ws, f.id).text
    ELSE IF f.type = "checkbox" THEN DictGet(vs, f.id).flag
    ELSE DictGet(vs, f.id).value

C4_TodayFields(tpl) ==
    {i \in 1..Len(FieldsOf(tpl)) :
        /\ FieldsOf(tpl)[i].default = TodayLiteral
        /\ FieldsOf(tpl)[i].type \in {"text", "number", "date", "select", "textarea"}}

C4_TodayIsTheDate ==
    [][ ((Construct /\ phase' = "ready") \/ clear_form) =>
          \A i \in C4_TodayFields(template') :
             Shown(variables', widgets', FieldsOf(template')[i]) = DateStr(today') ]_vars

(***************************************************************************)
(* C5: after clear_form every control holds what it held right after the   *)
(* form was built from the current template (its FieldSpec default), the   *)
(* result view is empty and the template is the same.                      *)
(***************************************************************************)
C5_ClearRestoresDefaults ==
    [][ clear_form =>
          LET built == create_sections(Controls(<<>>, <<>>, NoError), template, today)
          IN  /\ variables' = built.variables
              /\ widgets' = built.widgets
              /\ output_text' = View(<<>>)
              /\ template' = template ]_vars

(***************************************************************************)
(* C6: a template reload that fails, at whatever step, shows an error      *)
(* dialog, leaves the application running and leaves the template, the     *)
(* controls and their values as they were.                                 *)
(***************************************************************************)
C6_FailedReloadKeepsState ==
    [][ (load_template_file /\ dialog'.kind = "error" /\ dialog' # dialog) =>
          /\ running'
          /\ template' = template
          /\ variables' = variables
          /\ widgets' = widgets
          /\ output_text' = output_text ]_vars

(***************************************************************************)
(* C7: after a successful reload the template is the newly loaded one,     *)
(* variables and widgets hold only entries made from it, and every control *)
(* holds its FieldSpec default.                                            *)
(***************************************************************************)
C7_Default(f, day) ==
    IF f.type = "checkbox" THEN f.default.b
    ELSE IF f.default = Missing THEN <<>>
    ELSE IF f.default = TodayLiteral THEN DateStr(day)
    ELSE PyStr(f.default)

C7_Ids(tpl) == {FieldsOf(tpl)[i].id : i \in 1..Len(FieldsOf(tpl))}

C7_ReloadReplacesAll ==
    [][ \A file \in TemplateFiles :
          (/\ file.chosen /\ file.readable /\ file.parses
           /\ dialog' = Info(<<"Template loaded successfully!">>)
           /\ LoadTemplateFileFrom(file)) =>
             /\ template' = file.content
             /\ DictKeys(variables') \cup DictKeys(widgets') = C7_Ids(file.content)
             /\ Len(widgets') = Len(FieldsOf(file.content))
             /\ \A i \in 1..Len(FieldsOf(file.content)) :
                   Shown(variables', widgets', FieldsOf(file.content)[i])
                      = C7_Default(FieldsOf(file.content)[i], today')
             /\ output_text' = View(<<>>) ]_vars

\* the study template has just been loaded over another one's day
C7_Witness ==
    /\ Alive
    /\ dialog = Info(<<"Template loaded successfully!">>)
    /\ template = StudyTemplate
    /\ today = MaxDay
    /\ DictKeys(widgets) = C7_Ids(StudyTemplate)
    /\ Shown(variables, widgets, FieldsOf(template)[3]) = DateStr(today)

(***************************************************************************)
(* C8: a failure while a Word or PDF document is built or saved reaches    *)
(* the user as one error, "Error generating ... document: " followed by    *)
(* the failure's own description, shown in a dialog by save_to_word or     *)
(* save_to_pdf; the session goes on, template, controls and values         *)
(* unchanged.                                                              *)
(***************************************************************************)
\* the failure the libraries raise, if any
C8_WordFailure(file, save_ok) ==
    IF file.exists /\ ~file.valid THEN "Package not found"
    ELSE IF ~save_ok THEN "Permission denied"
    ELSE "none"

C8_SessionUntouched ==
    /\ phase' = "ready"
    /\ running'
    /\ UNCHANGED <<template, variables, widgets, output_text>>

C8_ExportFailureShown ==
    [][ /\ \A file \in ExportTemplates, save_ok \in BOOLEAN :
             (C8_WordFailure(file, save_ok) # "none"
              /\ SaveToWordWith(TRUE, file, save_ok)) =>
                /\ C8_SessionUntouched
                /\ dialog' = Error(<< "Error saving Word document:\n",
                                      "Error generating Word document: ",
                                      C8_WordFailure(file, save_ok) >>)
        /\ SaveToPdfWith(TRUE, FALSE) =>
                /\ C8_SessionUntouched
                /\ dialog' = Error(<< "Error saving PDF document:\n",
                                      "Error generating PDF document: ",
                                      "Permission denied" >>) ]_vars

\* a Word export has failed on an edited form, which is still up
C8_Witness ==
    /\ Alive
    /\ dialog = Error(<< "Error saving Word document:\n",
                         "Error generating Word document: ", "Package not found" >>)
    /\ template = DefaultTemplate
    /\ DictGet(variables, id_patient_age) = StringVar(<<"4","2">>)
    /\ output_text.kind = "view"

(***************************************************************************)
(* C11: a session started with no template file (the default template is   *)
(* written and loaded) and asked for JSON before any edit shows a FormData *)
(* whose keys are exactly patient_name and patient_age, each with its      *)
(* configured default, the empty string.                                   *)
(***************************************************************************)
\* the form as construction from the default template leaves it: two entry
\* fields, nothing typed
C11_Untouched ==
    /\ Alive
    /\ Len(FieldsOf(template)) = 2
    /\ DictKeys(variables) = {k_patient_name, id_patient_age}
    /\ Len(variables) = 2 /\ Len(widgets) = 2
    /\ \A i \in 1..2 : variables[i].v = StringVar(<<>>) /\ widgets[i].v = Entry

C11_DefaultData(d) ==
    /\ Len(d) = 2
    /\ DictKeys(d) = {k_patient_name, id_patient_age}
    /\ \A i \in 1..2 : d[i].v = Str(<<>>)

C11_DefaultSessionJson ==
    [][ /\ ConstructFrom([exists |-> FALSE]) => C11_Untouched' /\ ButtonsShown'
        /\ (C11_Untouched /\ generate_json) => C11_DefaultData(output_text'.shown[1]) ]_vars

\* the JSON of the untouched default form is on show
C11_Witness ==
    /\ C11_Untouched
    /\ output_text.kind = "view"
    /\ Len(output_text.shown) = 1
    /\ C11_DefaultData(output_text.shown[1])
    /\ dialog = Info(<<"JSON generated and copied to clipboard!">>)

(***************************************************************************)
(* C12: when load_template fails at startup an error dialog is shown, the  *)
(* application exits, and construction stops there: the interface is not   *)
(* built from a template that was never loaded, so no exception leaves     *)
(* __init__.                                                               *)
(***************************************************************************)
C12_StartupFailureStops ==
    [][ \A file \in StartupFiles :
          (file.exists /\ ~file.parses /\ ConstructFrom(file)) =>
             /\ dialog'.kind = "error"
             /\ ~running'
             /\ phase' # "crashed" ]_vars

(***************************************************************************)
(* C13: the result of _group_data_by_sections holds a section name if and  *)
(* only if at least one FormData key was classified into it, each such     *)
(* name once, and the names come in the order Patient Information,         *)
(* Background Activity, Epileptiform Activity, Provocation Responses,      *)
(* Conclusion, Other, whatever the order of the keys in FormData.          *)
(***************************************************************************)
C13_DeclaredOrder ==
    << "Patient Information", "Background Activity", "Epileptiform Activity",
       "Provocation Responses", "Conclusion", "Other" >>

C13_Rank(name) == CHOOSE i \in 1..Len(C13_DeclaredOrder) : C13_DeclaredOrder[i] = name

C13_SectionsRetainedInOrder ==
    called = "group" =>
        LET secs == result.sections
        IN  /\ {secs[i].k : i \in 1..Len(secs)} = NonEmptySections(data)
            /\ \A i \in 1..Len(secs) : secs[i].v # <<>>
            /\ \A i, j \in 1..Len(secs) :
                  i < j => C13_Rank(secs[i].k) < C13_Rank(secs[j].k)

\* the keys were given against the declared order of their sections
C13_Witness ==
    /\ called = "group"
    /\ Len(data) = 2
    /\ ClaimedSection(data[1].k) = "Other"
    /\ ClaimedSection(data[2].k) = "Background Activity"
    /\ Len(result.sections) = 2
    /\ result.sections[1].k = "Background Activity"

(***************************************************************************)
(* _format_field_name on its own: a snake_case key of lower-case words,    *)
(* one call.                                                               *)
(***************************************************************************)
MaxWords == 2

w_hv    == <<"h","v">>
w_photo == <<"p","h","o","t","o">>
w_eeg   == <<"e","e","g">>

FormatWords ==
    { w_hv, w_photo, w_eeg,
      <<"p","a","t","i","e","n","t">>, <<"n","a","m","e">>,
      <<"r","e","s","p","o","n","s","e">>, <<"s","c","o","r","e">>,
      <<"h","v","a","c">>,
      <<"p","h","o","t","o","p","a","r","o","x","y","s","m","a","l">>,
      <<"t","e","e","g">> }

\* the keys of one to n words joined by underscores
RECURSIVE SnakeKeys(_)
SnakeKeys(n) ==
    IF n = 1 THEN FormatWords
    ELSE SnakeKeys(n - 1)
         \cup {key \o <<"_">> \o w : key \in SnakeKeys(n - 1), w \in FormatWords}

PutFormatKey ==
    /\ called = "none"
    /\ data = <<>>
    /\ \E key \in SnakeKeys(MaxWords) : data' = << [k |-> key, v |-> NoneV] >>
    /\ UNCHANGED <<called, result, word_template>>
    /\ UNCHANGED formVars

CallFormat ==
    /\ called = "none"
    /\ data # <<>>
    /\ called' = "format"
    /\ result' = [kind |-> "name", name |-> format_field_name(data[1].k)]
    /\ UNCHANGED <<data, word_template>>
    /\ UNCHANGED formVars

InitFormat == InitGroup

NextFormat == PutFormatKey \/ CallFormat

SpecFormat == InitFormat /\ [][NextFormat]_vars

(***************************************************************************)
(* C14: _format_field_name shows a snake_case key as its words, separated  *)
(* by single spaces, each word with its first letter in upper case and the *)
(* rest unaltered, except that the word hv is shown as Hyperventilation,   *)
(* the word photo as Photostimulation and the word eeg as EEG.             *)
(***************************************************************************)
\* the words of a key, split at the underscores
RECURSIVE C14_Split(_, _)
C14_Split(key, word) ==
    IF key = <<>> THEN << word >>
    ELSE IF Head(key) = "_" THEN << word >> \o C14_Split(Tail(key), <<>>)
    ELSE C14_Split(Tail(key), Append(word, Head(key)))

C14_Word(w) ==
    IF w = w_hv THEN <<"H","y","p","e","r","v","e","n","t","i","l","a","t","i","o","n">>
    ELSE IF w = w_photo
         THEN <<"P","h","o","t","o","s","t","i","m","u","l","a","t","i","o","n">>
    ELSE IF w = w_eeg THEN <<"E","E","G">>
    ELSE IF w = <<>> THEN <<>>
    ELSE << ToUpper(Head(w)) >> \o Tail(w)

RECURSIVE C14_Join(_, _)
C14_Join(words, i) ==
    IF i > Len(words) THEN <<>>
    ELSE (IF i > 1 THEN <<" ">> ELSE <<>>) \o C14_Word(words[i]) \o C14_Join(words, i + 1)

C14_FormatsWholeWords ==
    called = "format" =>
        result.name = C14_Join(C14_Split(data[1].k, <<>>), 1)

(***************************************************************************)
(* C15: in every state of a running session the field ids that have a live *)
(* control, which are the keys collect_data returns, are the FieldSpec ids *)
(* of the in-memory template, one control for each FieldSpec.              *)
(***************************************************************************)
C15_ControlsMatchTemplate ==
    Alive =>
        LET collected == collect_data(template, variables, widgets)
        IN  /\ DictKeys(collected) = C7_Ids(template)
            /\ Len(collected) = Len(FieldsOf(template))
            /\ DictKeys(variables) \cup DictKeys(widgets) = C7_Ids(template)

(***************************************************************************)
(* C16: the text _replace_placeholders_in_paragraph produces does not      *)
(* depend on the order in which the keys of FormData are iterated: for the *)
(* same paragraphs and the same keys and values, every order gives the     *)
(* same filled document, also when the text of a value holds the token of  *)
(* another key.                                                            *)
(***************************************************************************)
\* the same dict, its items in the order p
C16_Reordered(d, p) == [i \in 1..Len(d) |-> d[p[i]]]

C16_FillOrderIndependent ==
    called = "fill" =>
        \A p \in Permutations(1..Len(data)) :
            fill_word_template(word_template.doc, C16_Reordered(data, p)) = result.doc

====
